---- MODULE Spec2Model ----
(***************************************************************************)
(* Bellezavari booking platform: the Paystack webhook handler, the         *)
(* Firestore booking store, the availability engine, the booking wizard    *)
(* and the create-payment function, as state machines.                     *)
(*                                                                         *)
(*   Spec       the webhook handler running on several function instances  *)
(*   SpecLedger the idempotency helpers of lib/db.ts                        *)
(*   SpecAvail  getAvailableTimeSlots applied to bounded inputs            *)
(*   SpecConflict hasBookingConflict applied to bounded inputs             *)
(*   SpecStore  the booking status operations of lib/db.ts                 *)
(*   SpecWizard bookings built by the booking wizard, then stored          *)
(*   SpecPayment the create-payment function and the payment processor     *)
(*   SpecTime   timeToMinutes and minutesToTime on 'HH:MM' strings          *)
(*   SpecNextDate getNextAvailableDate applied to bounded inputs           *)
(*   SpecSchedule slots booked one at a time against the stored bookings   *)
(*   SpecRelease  booked slots confirmed, cancelled, completed, no-show    *)
(*   SpecConcurrent two clients querying and booking at the same time      *)
(*   SpecFlow   the steps and selections of the booking wizard             *)
(***************************************************************************)
EXTENDS Integers, Sequences, FiniteSets, TLC

VARIABLES
  processedReferences, \* per function instance: the module-level Set<string>
  timers,              \* per function instance: pending setTimeout clean-ups
  successRuns,         \* history: how often the success branch ran per reference (2 = twice or more)
  bookings,            \* Firestore collection 'bookings': document id -> document
  processedPayments,   \* Firestore collection 'processedPayments': sequence of [id, reference, bookingId]
  inflight,            \* the HTTP request being delivered to the webhook, or NoRequest
  response,            \* the HandlerResponse of the delivered request, or NoResponse
  parsed,              \* whether JSON.parse was reached while handling the delivered request
  last,                \* the last Booking Store call and its outcome
  avail,               \* the availability engine's input and its computed result
  payment              \* the create-payment function: its request, outbound calls and response

vars == <<processedReferences, timers, successRuns, bookings, processedPayments,
          inflight, response, parsed, last, avail, payment>>

----------------------------------------------------------------------------
(* Bounds of the model *)

NumInstances == 2
MaxBookings == 2
MaxProcessedDocs == 3
MaxDay == 2
MaxSubmissions == 1

Instances == 1..NumInstances
BookingIds == 1..MaxBookings
References == {"BEL_1", "BEL_2"}

----------------------------------------------------------------------------
(* Booking documents (types/index.ts Booking, the fields the store writes) *)

BookingStatuses == {"pending", "confirmed", "completed", "cancelled", "no-show"}

----------------------------------------------------------------------------
(* Webhook requests *)

PAYSTACK_SECRET_KEY == "sk_secret"
ForgedKey == "sk_attacker"

EventTypes == {"charge.success", "charge.failed", "transfer.success"}
InnerStatuses == {"success", "failed"}

\* The text of a request body: not JSON at all, or JSON carrying an envelope.
\* hasData, hasMetadata and hasCustomer say whether the JSON object holds the
\* field; bookingId 0 is a metadata object without bookingId. NullBody is
\* event.body = null, EmptyText the string ''.
GarbageText ==
  [kind |-> "garbage", event |-> "-", hasData |-> FALSE, reference |-> "-", status |-> "-",
   hasMetadata |-> FALSE, bookingId |-> 0, hasCustomer |-> FALSE]
EmptyText == [GarbageText EXCEPT !.kind = "empty"]
NullBody == [GarbageText EXCEPT !.kind = "null"]

\* Envelopes with at most one of the fields the handler reads missing.
EnvelopeTexts ==
  {b \in [kind : {"json"}, event : EventTypes, hasData : {TRUE}, reference : References,
          status : InnerStatuses, hasMetadata : BOOLEAN, bookingId : {0, 1},
          hasCustomer : BOOLEAN] :
      /\ b.hasMetadata \/ b.bookingId = 0
      /\ b.hasCustomer \/ b.bookingId = 1}
  \cup {[GarbageText EXCEPT !.kind = "json", !.event = e] : e \in EventTypes}

Bodies == {NullBody, GarbageText} \cup EnvelopeTexts

\* crypto.createHmac('sha512', key).update(payload).digest('hex'): an ideal
\* keyed digest, determined by the key and the exact text and by nothing else.
HmacSha512Hex(key, payload) == [kind |-> "hex", key |-> key, text |-> payload]
NoSignature == [kind |-> "absent", key |-> "-", text |-> EmptyText]
EmptySignature == [NoSignature EXCEPT !.kind = "emptystring"]

\* event.body || ''
Payload(body) == IF body.kind = "null" THEN EmptyText ELSE body

\* What a sender can put in x-paystack-signature: nothing, an empty string, the
\* digest under the shared secret, a digest under another key, and the genuine
\* digest of another text (a replayed header).
Signatures(body) ==
  {NoSignature, EmptySignature,
   HmacSha512Hex(PAYSTACK_SECRET_KEY, Payload(body)),
   HmacSha512Hex(ForgedKey, Payload(body)),
   HmacSha512Hex(PAYSTACK_SECRET_KEY, GarbageText)}

Request(m, s, b) == [httpMethod |-> m, signature |-> s, body |-> b]

\* Requests: every body under its genuine signature, and the bodies an attacker
\* would choose (a complete successful charge for each reference, garbage, none)
\* under every signature and method.
AttackBodies ==
  {NullBody, GarbageText} \cup
  {b \in EnvelopeTexts : /\ b.event = "charge.success" /\ b.status = "success"
                         /\ b.bookingId = 1 /\ b.hasCustomer}

Requests ==
  {Request("POST", HmacSha512Hex(PAYSTACK_SECRET_KEY, Payload(b)), b) : b \in Bodies}
  \cup UNION {{Request(m, s, b) : s \in Signatures(b), m \in {"POST", "GET"}} :
                b \in AttackBodies}

NoRequest == [instance |-> 0]
NoResponse == [statusCode |-> 0, message |-> "-"]

Respond(code, msg) == [statusCode |-> code, message |-> msg]

\* a comparison that only checks that a hex digest was sent
verifySignature_AnyDigest(payload, signature) == signature.kind = "hex"

verifySignature(payload, signature) ==
  HmacSha512Hex(PAYSTACK_SECRET_KEY, payload) = signature

\* a lookup that never finds the reference
isAlreadyProcessed_Never(set, reference) == FALSE

isAlreadyProcessed(set, reference) == reference \in set

\* JSON.parse(payload) throws on text that is not JSON ('' included)
JsonParseThrows(payload) == payload.kind # "json"

\* The handler as a function of the request and of the instance's set: its
\* response, whether JSON.parse was reached, and the reference it marked.
NoMark == "-"
Outcome(resp, didParse, mark) == [response |-> resp, parsed |-> didParse, marked |-> mark]

handlerSuccessBranch(data) ==
  \* markAsProcessed(reference) has run; the log statement then reads
  \* metadata.bookingId and data.customer.email
  IF ~data.hasMetadata \/ ~data.hasCustomer
    THEN Outcome(Respond(500, "Internal server error"), TRUE, data.reference)
    ELSE Outcome(Respond(200, "Payment processed successfully"), TRUE, data.reference)

\* a handler that trusts the event type and never looks at data.status
handlerBody_IgnoresStatus(payload, set) ==
  IF JsonParseThrows(payload) \/ ~payload.hasData
    THEN Outcome(Respond(500, "Internal server error"), TRUE, NoMark)
  ELSE IF payload.event = "charge.success" /\ isAlreadyProcessed(set, payload.reference)
    THEN Outcome(Respond(200, "Already processed"), TRUE, NoMark)
  ELSE IF payload.event = "charge.success"
    THEN handlerSuccessBranch(payload)
  ELSE Outcome(Respond(200, "Event received"), TRUE, NoMark)

handlerBody(payload, set) ==
  IF JsonParseThrows(payload) \/ ~payload.hasData
    THEN Outcome(Respond(500, "Internal server error"), TRUE, NoMark)
  ELSE IF payload.event = "charge.success" /\ isAlreadyProcessed(set, payload.reference)
    THEN Outcome(Respond(200, "Already processed"), TRUE, NoMark)
  ELSE IF payload.event = "charge.success" /\ payload.status = "success"
    THEN handlerSuccessBranch(payload)
  ELSE Outcome(Respond(200, "Event received"), TRUE, NoMark)

handler(req, set) ==
  IF req.httpMethod # "POST"
    THEN Outcome(Respond(405, "Method not allowed"), FALSE, NoMark)
  ELSE IF req.signature.kind \in {"absent", "emptystring"}
    THEN Outcome(Respond(401, "Missing signature"), FALSE, NoMark)
  ELSE IF ~verifySignature(Payload(req.body), req.signature)
    THEN Outcome(Respond(401, "Invalid signature"), FALSE, NoMark)
  ELSE handlerBody(Payload(req.body), set)

\* processedReferences.add(reference) and the one-hour setTimeout
markAsProcessed(i, reference) ==
  /\ processedReferences' = [processedReferences EXCEPT ![i] = @ \cup {reference}]
  /\ timers' = [timers EXCEPT ![i] = @ \cup {reference}]

Bump(n) == IF n < 2 THEN n + 1 ELSE 2

----------------------------------------------------------------------------
(* Actions of the webhook function *)

\* Paystack (or anyone else) sends a request; the platform routes it to an instance.
Deliver(i, req) ==
  /\ inflight = NoRequest
  /\ inflight' = [instance |-> i, httpMethod |-> req.httpMethod,
                  signature |-> req.signature, body |-> req.body]
  /\ UNCHANGED <<processedReferences, timers, successRuns, response, parsed,
                 bookings, processedPayments, last, avail, payment>>

\* The instance runs the handler to completion (it awaits nothing).
Handle ==
  /\ inflight # NoRequest
  /\ response = NoResponse
  /\ LET i == inflight.instance
         out == handler(inflight, processedReferences[i])
     IN /\ response' = out.response
        /\ parsed' = out.parsed
        /\ IF out.marked # NoMark
             THEN /\ markAsProcessed(i, out.marked)
                  /\ successRuns' = [successRuns EXCEPT ![out.marked] = Bump(@)]
             ELSE UNCHANGED <<processedReferences, timers, successRuns>>
  /\ UNCHANGED <<inflight, bookings, processedPayments, last, avail, payment>>

\* The response has been sent; the function is ready for the next request.
Return ==
  /\ response # NoResponse
  /\ inflight' = NoRequest
  /\ response' = NoResponse
  /\ parsed' = FALSE
  /\ UNCHANGED <<processedReferences, timers, successRuns,
                 bookings, processedPayments, last, avail, payment>>

\* The setTimeout callback of markAsProcessed fires after one hour.
TimerFires(i, reference) ==
  /\ reference \in timers[i]
  /\ timers' = [timers EXCEPT ![i] = @ \ {reference}]
  /\ processedReferences' = [processedReferences EXCEPT ![i] = @ \ {reference}]
  /\ UNCHANGED <<successRuns, inflight, response, parsed,
                 bookings, processedPayments, last, avail, payment>>

----------------------------------------------------------------------------
(* Booking Store: lib/db.ts *)

\* createBooking: the document addDoc stores, i.e. the amounts of bookingData
\* and the initial payment and status fields
NewBooking(bookingData) ==
  [paymentReference |-> "", paymentStatus |-> "pending", bookingStatus |-> "pending"]
    @@ bookingData

createBooking(store, bookingData) == Append(store, NewBooking(bookingData))

\* updateBookingStatus(bookingId, status, paymentReference?): updateDoc rejects
\* when the document does not exist; '' and undefined are both falsy.
\* Variant: a payment reference is stored without marking the booking paid
updateBookingStatus_ReferenceOnly(store, bookingId, status, paymentReference) ==
  IF bookingId \notin DOMAIN store THEN store
  ELSE IF paymentReference # ""
    THEN [store EXCEPT ![bookingId].bookingStatus = status,
                       ![bookingId].paymentReference = paymentReference]
    ELSE [store EXCEPT ![bookingId].bookingStatus = status]

updateBookingStatus(store, bookingId, status, paymentReference) ==
  IF bookingId \notin DOMAIN store THEN store
  ELSE IF paymentReference # ""
    THEN [store EXCEPT ![bookingId].bookingStatus = status,
                       ![bookingId].paymentReference = paymentReference,
                       ![bookingId].paymentStatus = "paid"]
    ELSE [store EXCEPT ![bookingId].bookingStatus = status]

cancelBooking(store, bookingId) == updateBookingStatus(store, bookingId, "cancelled", "")
completeBooking(store, bookingId) == updateBookingStatus(store, bookingId, "completed", "")
markNoShow(store, bookingId) == updateBookingStatus(store, bookingId, "no-show", "")

CreateBooking(bookingData) ==
  /\ Len(bookings) < MaxBookings
  /\ bookings' = createBooking(bookings, bookingData)
  /\ UNCHANGED <<processedReferences, timers, successRuns, inflight, response, parsed,
                 processedPayments, last, avail, payment>>

UpdateBookingStatus(bookingId, status, paymentReference) ==
  /\ bookingId \in DOMAIN bookings
  /\ bookings' = updateBookingStatus(bookings, bookingId, status, paymentReference)
  /\ UNCHANGED <<processedReferences, timers, successRuns, inflight, response, parsed,
                 processedPayments, last, avail, payment>>

CancelBooking(bookingId) ==
  /\ bookingId \in DOMAIN bookings
  /\ bookings' = cancelBooking(bookings, bookingId)
  /\ UNCHANGED <<processedReferences, timers, successRuns, inflight, response, parsed,
                 processedPayments, last, avail, payment>>

CompleteBooking(bookingId) ==
  /\ bookingId \in DOMAIN bookings
  /\ bookings' = completeBooking(bookings, bookingId)
  /\ UNCHANGED <<processedReferences, timers, successRuns, inflight, response, parsed,
                 processedPayments, last, avail, payment>>

MarkNoShow(bookingId) ==
  /\ bookingId \in DOMAIN bookings
  /\ bookings' = markNoShow(bookings, bookingId)
  /\ UNCHANGED <<processedReferences, timers, successRuns, inflight, response, parsed,
                 processedPayments, last, avail, payment>>

----------------------------------------------------------------------------
(* Idempotency helpers of lib/db.ts on the 'processedPayments' collection *)

\* doc(db, PROCESSED_PAYMENTS_COLLECTION, reference): the document whose id is
\* the reference. addDoc(collection(...), data) stores under a fresh id that
\* Firestore generates (20 random characters), never a payment reference.
PathId(reference) == [auto |-> FALSE, path |-> reference, n |-> 0]
AutoId(n) == [auto |-> TRUE, path |-> "", n |-> n]

DocExists(coll, id) == \E k \in DOMAIN coll : coll[k].id = id

\* isPaymentProcessed: getDoc(doc(db, 'processedPayments', reference)).exists()
isPaymentProcessed(coll, reference) == DocExists(coll, PathId(reference))

\* updateDoc(docRef, {bookingId, processedAt}): rejects when docRef does not exist
updateDoc(coll, id, bookingId) ==
  [k \in DOMAIN coll |-> IF coll[k].id = id THEN [coll[k] EXCEPT !.bookingId = bookingId]
                                            ELSE coll[k]]

\* addDoc(collection(db, 'processedPayments'), {reference, bookingId, processedAt})
addDoc(coll, reference, bookingId) ==
  Append(coll, [id |-> AutoId(Len(coll) + 1), reference |-> reference, bookingId |-> bookingId])

\* markPaymentProcessed: updateDoc, and addDoc in the catch when it rejects
markPaymentProcessed(coll, reference, bookingId) ==
  IF DocExists(coll, PathId(reference))
    THEN updateDoc(coll, PathId(reference), bookingId)
    ELSE addDoc(coll, reference, bookingId)

\* The records the collection holds for a reference, in creation order
PaymentRecords(coll, reference) ==
  SelectSeq(coll, LAMBDA d : d.reference = reference \/ d.id = PathId(reference))

Call(op, reference, bookingId, ok, result) ==
  [op |-> op, reference |-> reference, bookingId |-> bookingId, ok |-> ok, result |-> result]

MarkPaymentProcessed(reference, bookingId) ==
  /\ Len(processedPayments) < MaxProcessedDocs
  /\ processedPayments' = markPaymentProcessed(processedPayments, reference, bookingId)
  /\ last' = Call("markPaymentProcessed", reference, bookingId, TRUE, FALSE)
  /\ UNCHANGED <<processedReferences, timers, successRuns, inflight, response, parsed,
                 bookings, avail, payment>>

IsPaymentProcessed(reference) ==
  /\ last' = Call("isPaymentProcessed", reference, 0, TRUE,
                  isPaymentProcessed(processedPayments, reference))
  /\ UNCHANGED <<processedReferences, timers, successRuns, inflight, response, parsed,
                 bookings, processedPayments, avail, payment>>

----------------------------------------------------------------------------
(* Availability engine: lib/availability.ts *)

\* Instants are minutes since the start of calendar day 0 in UTC; calendar day 0
\* is a Sunday. A time string 'HH:MM' is the pair <<HH, MM>> of its two numbers.
MinutesPerDay == 24 * 60

\* Host timezone offsets, local = UTC + offset: America/Toronto in winter, UTC,
\* and Europe/London in summer (the two values of settings.timezone)
TimezoneOffsets == {-300, 0, 60}

\* data/settings.ts
workingHours ==
  << [dayOfWeek |-> 0, isOpen |-> FALSE, openTime |-> <<9, 0>>, closeTime |-> <<18, 0>>],
     [dayOfWeek |-> 1, isOpen |-> TRUE, openTime |-> <<9, 0>>, closeTime |-> <<19, 0>>],
     [dayOfWeek |-> 2, isOpen |-> TRUE, openTime |-> <<9, 0>>, closeTime |-> <<19, 0>>],
     [dayOfWeek |-> 3, isOpen |-> TRUE, openTime |-> <<9, 0>>, closeTime |-> <<19, 0>>],
     [dayOfWeek |-> 4, isOpen |-> TRUE, openTime |-> <<9, 0>>, closeTime |-> <<19, 0>>],
     [dayOfWeek |-> 5, isOpen |-> TRUE, openTime |-> <<9, 0>>, closeTime |-> <<19, 0>>],
     [dayOfWeek |-> 6, isOpen |-> TRUE, openTime |-> <<9, 0>>, closeTime |-> <<17, 0>> ] >>
bufferMinutes == 30

\* data/services.ts: the long, the medium and the short service
services ==
  { [id |-> "knotless-braids-small", price |-> 350, depositAmount |-> 125,
     durationMinutes |-> 480, allowedStartTimes |-> << <<9, 0>> >>],
    [id |-> "knotless-braids-medium", price |-> 280, depositAmount |-> 100,
     durationMinutes |-> 360, allowedStartTimes |-> << <<9, 0>>, <<11, 0>> >>],
    [id |-> "wash-style", price |-> 75, depositAmount |-> 35, durationMinutes |-> 90,
     allowedStartTimes |-> << <<9, 0>>, <<11, 0>>, <<13, 0>>, <<14, 0>>, <<15, 0>>, <<16, 0>> >>] }

timeToMinutes(time) == time[1] * 60 + time[2]

\* Time strings character by character: a string is a sequence of one-character
\* strings, '09:05' is <<"0", "9", ":", "0", "5">>
DigitChars == <<"0", "1", "2", "3", "4", "5", "6", "7", "8", "9">>
DigitValue(char) == CHOOSE d \in 0..9 : DigitChars[d + 1] = char

\* Number(str) of a string of decimal digits
RECURSIVE Number(_)
Number(str) ==
  IF str = <<>> THEN 0
  ELSE Number(SubSeq(str, 1, Len(str) - 1)) * 10 + DigitValue(str[Len(str)])

\* time.split(':').map(Number): the pair [hours, minutes] timeToMinutes works on
parseTime(time) ==
  LET colon == CHOOSE i \in DOMAIN time : time[i] = ":"
  IN <<Number(SubSeq(time, 1, colon - 1)), Number(SubSeq(time, colon + 1, Len(time)))>>

\* n.toString() of a non-negative integer
RECURSIVE toString(_)
toString(n) ==
  IF n < 10 THEN <<DigitChars[n + 1]>>
  ELSE toString(n \div 10) \o <<DigitChars[(n % 10) + 1]>>

\* str.padStart(targetLength, padChar)
RECURSIVE padStart(_, _, _)
padStart(str, targetLength, padChar) ==
  IF Len(str) >= targetLength THEN str
  ELSE padStart(<<padChar>> \o str, targetLength, padChar)

\* Variant: hours and minutes are written without padding
minutesToTime_Unpadded(minutes) == toString(minutes \div 60) \o <<":">> \o toString(minutes % 60)

minutesToTime(minutes) ==
  padStart(toString(minutes \div 60), 2, "0") \o <<":">> \o padStart(toString(minutes % 60), 2, "0")

\* Date fields in the host's timezone, and the date part of toISOString() (UTC)
LocalDay(instant, tz) == (instant + tz) \div MinutesPerDay
LocalMinuteOfDay(instant, tz) == (instant + tz) % MinutesPerDay
getDay(instant, tz) == LocalDay(instant, tz) % 7
toISODate(instant) == instant \div MinutesPerDay

\* new Date(year, month, day) followed by setHours(h, m, 0, 0)
LocalDateTime(day, minuteOfDay, tz) == day * MinutesPerDay + minuteOfDay - tz

createDateTime(date, time, tz) ==
  LocalDateTime(LocalDay(date, tz), timeToMinutes(time), tz)

\* Variant: a service must end strictly before closing time
wouldEndWithinWorkingHours_Strict(startTime, durationMinutes, closeTime) ==
  timeToMinutes(startTime) + durationMinutes < timeToMinutes(closeTime)

wouldEndWithinWorkingHours(startTime, durationMinutes, closeTime) ==
  timeToMinutes(startTime) + durationMinutes <= timeToMinutes(closeTime)

\* Variant: the buffer after an existing booking is not counted
hasBookingConflict_NoBufferAfter(date, startTime, durationMinutes, existingBookings, buffer, tz) ==
  LET dateStr == toISODate(date)
      startMinutes == timeToMinutes(startTime)
      endMinutes == startMinutes + durationMinutes + buffer
      dayBookings ==
        SelectSeq(existingBookings,
                  LAMBDA booking :
                    /\ toISODate(booking.startTime) = dateStr
                    /\ booking.bookingStatus \in {"confirmed", "pending"})
  IN \E k \in DOMAIN dayBookings :
       LET bookingStartMinutes == LocalMinuteOfDay(dayBookings[k].startTime, tz)
           bookingEndMinutes == LocalMinuteOfDay(dayBookings[k].endTime, tz)
       IN \/ (startMinutes >= bookingStartMinutes /\ startMinutes < bookingEndMinutes)
          \/ (endMinutes > bookingStartMinutes /\ endMinutes <= bookingEndMinutes)
          \/ (startMinutes <= bookingStartMinutes /\ endMinutes >= bookingEndMinutes)

\* Variant: bookings of every status count as bookings of the day
hasBookingConflict_AnyStatus(date, startTime, durationMinutes, existingBookings, buffer, tz) ==
  LET dateStr == toISODate(date)
      startMinutes == timeToMinutes(startTime)
      endMinutes == startMinutes + durationMinutes + buffer
      dayBookings ==
        SelectSeq(existingBookings,
                  LAMBDA booking : toISODate(booking.startTime) = dateStr)
  IN \E k \in DOMAIN dayBookings :
       LET bookingStartMinutes == LocalMinuteOfDay(dayBookings[k].startTime, tz)
           bookingEndMinutes == LocalMinuteOfDay(dayBookings[k].endTime, tz) + buffer
       IN \/ (startMinutes >= bookingStartMinutes /\ startMinutes < bookingEndMinutes)
          \/ (endMinutes > bookingStartMinutes /\ endMinutes <= bookingEndMinutes)
          \/ (startMinutes <= bookingStartMinutes /\ endMinutes >= bookingEndMinutes)

hasBookingConflict(date, startTime, durationMinutes, existingBookings, buffer, tz) ==
  LET dateStr == toISODate(date)
      startMinutes == timeToMinutes(startTime)
      endMinutes == startMinutes + durationMinutes + buffer
      dayBookings ==
        SelectSeq(existingBookings,
                  LAMBDA booking :
                    /\ toISODate(booking.startTime) = dateStr
                    /\ booking.bookingStatus \in {"confirmed", "pending"})
  IN \E k \in DOMAIN dayBookings :
       LET bookingStartMinutes == LocalMinuteOfDay(dayBookings[k].startTime, tz)
           bookingEndMinutes == LocalMinuteOfDay(dayBookings[k].endTime, tz) + buffer
       IN \/ (startMinutes >= bookingStartMinutes /\ startMinutes < bookingEndMinutes)
          \/ (endMinutes > bookingStartMinutes /\ endMinutes <= bookingEndMinutes)
          \/ (startMinutes <= bookingStartMinutes /\ endMinutes >= bookingEndMinutes)

\* Variant: the two-hour notice is applied to every date
hasTimePassed_AnyDay(date, time, now, tz) == createDateTime(date, time, tz) < now + 2 * 60

hasTimePassed(date, time, now, tz) ==
  IF LocalDay(date, tz) # LocalDay(now, tz) THEN FALSE
  ELSE createDateTime(date, time, tz) < now + 2 * 60

\* settings.workingHours.find(wh => wh.dayOfWeek === dayOfWeek): the entries found
FindWorkingDay(hours, dayOfWeek) == SelectSeq(hours, LAMBDA wh : wh.dayOfWeek = dayOfWeek)

Slot(time, isAvailable, reason) == [time |-> time, isAvailable |-> isAvailable, reason |-> reason]

\* Variant: the booking conflict is tested before the other three conditions
SlotFor_BookedFirst(service, date, existingBookings, workingDay, startTime, buffer, now, tz) ==
  IF hasBookingConflict(date, startTime, service.durationMinutes, existingBookings, buffer, tz)
    THEN Slot(startTime, FALSE, "Already booked")
  ELSE IF timeToMinutes(startTime) < timeToMinutes(workingDay.openTime)
    THEN Slot(startTime, FALSE, "Before opening time")
  ELSE IF ~wouldEndWithinWorkingHours(startTime, service.durationMinutes, workingDay.closeTime)
    THEN Slot(startTime, FALSE, "Service would end after closing")
  ELSE IF hasTimePassed(date, startTime, now, tz)
    THEN Slot(startTime, FALSE, "Time has passed")
  ELSE Slot(startTime, TRUE, "")

\* One iteration of the loop over service.allowedStartTimes
SlotFor(service, date, existingBookings, workingDay, startTime, buffer, now, tz) ==
  IF timeToMinutes(startTime) < timeToMinutes(workingDay.openTime)
    THEN Slot(startTime, FALSE, "Before opening time")
  ELSE IF ~wouldEndWithinWorkingHours(startTime, service.durationMinutes, workingDay.closeTime)
    THEN Slot(startTime, FALSE, "Service would end after closing")
  ELSE IF hasTimePassed(date, startTime, now, tz)
    THEN Slot(startTime, FALSE, "Time has passed")
  ELSE IF hasBookingConflict(date, startTime, service.durationMinutes, existingBookings, buffer, tz)
    THEN Slot(startTime, FALSE, "Already booked")
  ELSE Slot(startTime, TRUE, "")

\* Variant: the loop keeps only the start times that can be booked
RECURSIVE TimeSlotsLoop_OnlyAvailable(_, _, _, _, _, _, _, _, _)
TimeSlotsLoop_OnlyAvailable(service, date, existingBookings, workingDay, k, timeSlots, buffer, now, tz) ==
  IF k > Len(service.allowedStartTimes) THEN timeSlots
  ELSE LET slot == SlotFor(service, date, existingBookings, workingDay,
                           service.allowedStartTimes[k], buffer, now, tz)
       IN TimeSlotsLoop_OnlyAvailable(service, date, existingBookings, workingDay, k + 1,
                                      IF slot.isAvailable THEN Append(timeSlots, slot)
                                                          ELSE timeSlots,
                                      buffer, now, tz)

RECURSIVE TimeSlotsLoop(_, _, _, _, _, _, _, _, _)
TimeSlotsLoop(service, date, existingBookings, workingDay, k, timeSlots, buffer, now, tz) ==
  IF k > Len(service.allowedStartTimes) THEN timeSlots
  ELSE TimeSlotsLoop(service, date, existingBookings, workingDay, k + 1,
                     Append(timeSlots,
                            SlotFor(service, date, existingBookings, workingDay,
                                    service.allowedStartTimes[k], buffer, now, tz)),
                     buffer, now, tz)

\* settings is [workingHours, offDays, bufferMinutes]; offDays holds calendar
\* days ('YYYY-MM-DD'); now and tz are the host's clock and timezone offset.
getAvailableTimeSlots(service, date, existingBookings, settings, now, tz) ==
  LET found == FindWorkingDay(settings.workingHours, getDay(date, tz))
  IN IF found = <<>> \/ ~found[1].isOpen THEN <<>>
     ELSE IF toISODate(date) \in settings.offDays THEN <<>>
     ELSE TimeSlotsLoop(service, date, existingBookings, found[1], 1, <<>>,
                        settings.bufferMinutes, now, tz)

\* slots.some(slot => slot.isAvailable)
hasAvailableSlots(service, date, existingBookings, settings, now, tz) ==
  LET slots == getAvailableTimeSlots(service, date, existingBookings, settings, now, tz)
  IN \E i \in DOMAIN slots : slots[i].isAvailable

maxDays == 90
NoDate == -1

\* for (let i = 0; i < maxDays; i++): checkDate.setDate(checkDate.getDate() + 1)
\* moves the date by one calendar day and keeps its time of day
RECURSIVE NextAvailableLoop(_, _, _, _, _, _, _)
NextAvailableLoop(service, existingBookings, checkDate, i, settings, now, tz) ==
  IF i >= maxDays THEN NoDate
  ELSE IF hasAvailableSlots(service, checkDate, existingBookings, settings, now, tz)
    THEN checkDate
  ELSE NextAvailableLoop(service, existingBookings, checkDate + MinutesPerDay, i + 1,
                         settings, now, tz)

getNextAvailableDate(service, existingBookings, startFrom, settings, now, tz) ==
  NextAvailableLoop(service, existingBookings, startFrom + MinutesPerDay, 0, settings, now, tz)

----------------------------------------------------------------------------
(* The booking wizard: the totals and the record handleSubmit builds *)

\* data/services.ts globalExtras: the first two add-ons
globalExtras ==
  << [id |-> "home-service", price |-> 75], [id |-> "hair-provided", price |-> 50] >>

\* selectedExtras after any toggles: no add-on, one, or both in either order
ExtrasSelections ==
  {<<>>, <<globalExtras[1]>>, <<globalExtras[2]>>,
   <<globalExtras[1], globalExtras[2]>>, <<globalExtras[2], globalExtras[1]>>}

\* selectedExtras.reduce((sum, extra) => sum + extra.price, 0)
RECURSIVE extrasTotal(_)
extrasTotal(selectedExtras) ==
  IF selectedExtras = <<>> THEN 0
  ELSE extrasTotal(SubSeq(selectedExtras, 1, Len(selectedExtras) - 1))
         + selectedExtras[Len(selectedExtras)].price

totalPrice(servicePrice, extras) == servicePrice + extras

\* Variant: the deposit is not taken off the balance
balanceDue_FullPrice(total, depositAmount) == total

balanceDue(total, depositAmount) == total - depositAmount

\* handleSubmit: the amounts of bookingData
bookingData(selectedService, selectedExtras) ==
  [subtotal |-> selectedService.price,
   extrasTotal |-> extrasTotal(selectedExtras),
   depositAmount |-> selectedService.depositAmount,
   totalPaid |-> selectedService.depositAmount,
   balanceDue |-> balanceDue(totalPrice(selectedService.price, extrasTotal(selectedExtras)),
                             selectedService.depositAmount),
   policyAcknowledged |-> TRUE]

\* calculateEndTime: the end of the appointment as an 'HH:MM' string
calculateEndTime(startTime, durationMinutes) ==
  minutesToTime(timeToMinutes(startTime) + durationMinutes)

\* handleSubmit: bookingData with the appointment's startTime and endTime
bookingDataAt(selectedService, selectedDate, selectedTime, selectedExtras, tz) ==
  [startTime |-> createDateTime(selectedDate, selectedTime, tz),
   endTime |-> createDateTime(selectedDate,
                              parseTime(calculateEndTime(selectedTime,
                                                         selectedService.durationMinutes)),
                              tz)]
    @@ bookingData(selectedService, selectedExtras)

\* The booking the webhook system works on: the shortest service, no add-on
PlainBooking == bookingData(CHOOSE sv \in services : sv.id = "wash-style", <<>>)

----------------------------------------------------------------------------
(* The create-payment function: netlify/functions/create-payment.ts *)

\* A field of the request body as the handler's test `!field` sees it: absent
\* (undefined), present but falsy ('' or 0), or present with a truthy value
Absent == [defined |-> FALSE, truthy |-> FALSE]
Falsy == [defined |-> TRUE, truthy |-> FALSE]
Value == [defined |-> TRUE, truthy |-> TRUE]
FieldValues == {Absent, Falsy, Value}

\* event.body: null, a text JSON.parse rejects, the JSON texts 'null' and '5',
\* or a JSON object with any of the four required fields absent, falsy or set
PaymentBody(kind, email, amount, bookingId, serviceId) ==
  [kind |-> kind, email |-> email, amount |-> amount,
   bookingId |-> bookingId, serviceId |-> serviceId]

PaymentBodies ==
  {PaymentBody(k, Absent, Absent, Absent, Absent) :
     k \in {"null", "garbage", "jsonNull", "jsonNumber"}}
  \cup {PaymentBody("object", e, a, b, sv) :
          e \in FieldValues, a \in FieldValues, b \in FieldValues, sv \in FieldValues}

PaymentMethods == {"POST", "GET", "OPTIONS"}

\* What api.paystack.co does with the initialize call: status true, status
\* false, no answer at all (fetch rejects), an answer that is not JSON
ProcessorAnswers == {"accepted", "rejected", "networkError", "unreadable"}

\* JSON.parse(event.body || '{}') followed by the destructuring of the result:
\* the parse throws on garbage, the destructuring throws on null
CreatePaymentParseThrows(body) == body.kind \in {"garbage", "jsonNull"}

\* Variant: only the email is required
MissingRequiredFields_EmailOnly(body) == ~body.email.truthy

\* !email || !amount || !bookingId || !serviceId
MissingRequiredFields(body) ==
  \/ ~body.email.truthy
  \/ ~body.amount.truthy
  \/ ~body.bookingId.truthy
  \/ ~body.serviceId.truthy

PaymentStep(resp, doFetch) == [response |-> resp, fetch |-> doFetch]

\* The handler up to its first await: it returns a response, or issues the POST
\* to https://api.paystack.co/transaction/initialize
createPaymentHandlerStart(httpMethod, body) ==
  IF httpMethod = "OPTIONS" THEN PaymentStep(Respond(200, ""), FALSE)
  ELSE IF httpMethod # "POST" THEN PaymentStep(Respond(405, "Method not allowed"), FALSE)
  ELSE IF CreatePaymentParseThrows(body)
    THEN PaymentStep(Respond(500, "Internal server error"), FALSE)
  ELSE IF MissingRequiredFields(body)
    THEN PaymentStep(Respond(400, "Missing required fields"), FALSE)
  ELSE PaymentStep(NoResponse, TRUE)

\* The handler after the fetch settles
createPaymentHandlerResume(answer) ==
  IF answer \in {"networkError", "unreadable"} THEN Respond(500, "Internal server error")
  ELSE IF answer = "rejected" THEN Respond(400, "Payment initialization failed")
  ELSE Respond(200, "success")

NoPayment ==
  [pc |-> "idle", httpMethod |-> "-", body |-> PaymentBody("null", Absent, Absent, Absent, Absent),
   calls |-> 0, answer |-> "-", response |-> NoResponse]

\* A client calls the function; the handler runs until it returns or awaits the fetch
CreatePayment(httpMethod, body) ==
  /\ payment.pc = "idle"
  /\ LET step == createPaymentHandlerStart(httpMethod, body)
     IN payment' = [pc |-> IF step.fetch THEN "awaiting" ELSE "done",
                    httpMethod |-> httpMethod, body |-> body,
                    calls |-> IF step.fetch THEN 1 ELSE 0,
                    answer |-> "-", response |-> step.response]
  /\ UNCHANGED <<processedReferences, timers, successRuns, inflight, response, parsed,
                 bookings, processedPayments, last, avail>>

\* The fetch settles and the handler runs to its return
ProcessorAnswer(answer) ==
  /\ payment.pc = "awaiting"
  /\ payment' = [payment EXCEPT !.pc = "done", !.answer = answer,
                                !.response = createPaymentHandlerResume(answer)]
  /\ UNCHANGED <<processedReferences, timers, successRuns, inflight, response, parsed,
                 bookings, processedPayments, last, avail>>

\* The response has been sent
PaymentReturn ==
  /\ payment.pc = "done"
  /\ payment' = NoPayment
  /\ UNCHANGED <<processedReferences, timers, successRuns, inflight, response, parsed,
                 bookings, processedPayments, last, avail>>

----------------------------------------------------------------------------
(* The webhook system *)

NoCall == Call("-", "-", 0, TRUE, FALSE)
NoAvail == [computed |-> FALSE]

Init ==
  /\ processedReferences = [i \in Instances |-> {}]
  /\ timers = [i \in Instances |-> {}]
  /\ successRuns = [r \in References |-> 0]
  /\ bookings = <<>>
  /\ processedPayments = <<>>
  /\ inflight = NoRequest
  /\ response = NoResponse
  /\ parsed = FALSE
  /\ last = NoCall
  /\ payment = NoPayment
  /\ avail = NoAvail

Next ==
  \/ \E i \in Instances, req \in Requests : Deliver(i, req)
  \/ Handle
  \/ Return
  \/ \E i \in Instances, r \in References : TimerFires(i, r)
  \/ CreateBooking(PlainBooking)

Spec == Init /\ [][Next]_vars

\* The idempotency helpers called in any order by the server code
NextLedger ==
  \/ \E r \in References, b \in BookingIds : MarkPaymentProcessed(r, b)
  \/ \E r \in References : IsPaymentProcessed(r)

SpecLedger == Init /\ [][NextLedger]_vars

\* The booking operations of lib/db.ts called in any order with any arguments
StoreOperations(references) ==
  \/ \E id \in BookingIds, st \in BookingStatuses, ref \in {""} \cup references :
       UpdateBookingStatus(id, st, ref)
  \/ \E id \in BookingIds : CancelBooking(id)
  \/ \E id \in BookingIds : CompleteBooking(id)
  \/ \E id \in BookingIds : MarkNoShow(id)

NextStore ==
  \/ CreateBooking(PlainBooking)
  \/ StoreOperations(References)

SpecStore == Init /\ [][NextStore]_vars

\* The wizard submits a booking for any service and any selection of add-ons;
\* the record it builds is stored and the store operations follow
SubmitBooking(selectedService, selectedExtras) ==
  /\ Len(bookings) < MaxSubmissions
  /\ CreateBooking(bookingData(selectedService, selectedExtras))

NextWizard ==
  \/ \E sv \in services, extras \in ExtrasSelections : SubmitBooking(sv, extras)
  \/ StoreOperations({"BEL_1"})

SpecWizard == Init /\ [][NextWizard]_vars

\* The availability engine applied to one query. The queried dates are a
\* Saturday, the Sunday after it and the days that follow, at local midnight
\* (the calendar's new Date(year, month, day)) or in the evening.
Days == 6..(6 + MaxDay)

\* The shipped hours with a Monday that opens at 10:00 and closes at 16:00
ShortMondayHours ==
  [k \in DOMAIN workingHours |->
     IF workingHours[k].dayOfWeek = 1
       THEN [workingHours[k] EXCEPT !.openTime = <<10, 0>>, !.closeTime = <<16, 0>>]
       ELSE workingHours[k]]

SettingsChoices ==
  [workingHours : {workingHours, ShortMondayHours,
                   SelectSeq(workingHours, LAMBDA wh : wh.dayOfWeek # 1)},
   offDays : {{}} \cup {{d} : d \in Days},
   bufferMinutes : {bufferMinutes}]

\* No booking, or one booking on the Monday (day 8) from 09:00 to 11:00 local time
BookingLists(tz) ==
  {<<>>} \cup
  {<< [startTime |-> LocalDateTime(8, 9 * 60, tz),
       endTime |-> LocalDateTime(8, 11 * 60, tz),
       bookingStatus |-> st] >> : st \in {"pending", "confirmed", "cancelled"}}

Clocks(tz) == {LocalDateTime(6, 12 * 60, tz), LocalDateTime(8, 8 * 60, tz)}

InitAvail ==
  /\ processedReferences = [i \in Instances |-> {}]
  /\ timers = [i \in Instances |-> {}]
  /\ successRuns = [r \in References |-> 0]
  /\ bookings = <<>>
  /\ processedPayments = <<>>
  /\ inflight = NoRequest
  /\ response = NoResponse
  /\ parsed = FALSE
  /\ last = NoCall
  /\ payment = NoPayment
  /\ \E service \in services, day \in Days, minuteOfDay \in {0, 20 * 60},
        tz \in TimezoneOffsets, settings \in SettingsChoices :
       \E existingBookings \in BookingLists(tz), now \in Clocks(tz) :
         avail = [computed |-> FALSE, service |-> service,
                  date |-> LocalDateTime(day, minuteOfDay, tz), tz |-> tz, now |-> now,
                  settings |-> settings, existingBookings |-> existingBookings,
                  slots |-> <<>>]

GetAvailableTimeSlots ==
  /\ ~avail.computed
  /\ avail' = [avail EXCEPT
                 !.computed = TRUE,
                 !.slots = getAvailableTimeSlots(avail.service, avail.date,
                                                 avail.existingBookings, avail.settings,
                                                 avail.now, avail.tz)]
  /\ UNCHANGED <<processedReferences, timers, successRuns, inflight, response, parsed,
                 bookings, processedPayments, last, payment>>

SpecAvail == InitAvail /\ [][GetAvailableTimeSlots]_vars

\* hasBookingConflict applied to one query: a candidate start time between
\* 09:00 and 11:59 on the Monday (day 8), against no booking, one booking that
\* starts at 10:00 local time on that Monday or on the Tuesday, or two bookings
ConflictStartTimes == {<<h, m>> : h \in 9..11, m \in {0, 1, 29, 30, 31, 59}}
ConflictDurations == {0, 1, 30, 60, 180}
ConflictBuffers == {0, bufferMinutes}

ConflictBooking(day, length, status, tz) ==
  [startTime |-> LocalDateTime(day, 10 * 60, tz),
   endTime |-> LocalDateTime(day, 10 * 60 + length, tz),
   bookingStatus |-> status]

ConflictBookingLists(tz) ==
  {<<>>}
  \cup {<<ConflictBooking(day, length, st, tz)>> :
          day \in {8, 9}, length \in {0, 60}, st \in {"pending", "confirmed", "cancelled"}}
  \cup {<<ConflictBooking(8, 60, "cancelled", tz), ConflictBooking(9, 60, "confirmed", tz)>>,
        <<ConflictBooking(9, 60, "pending", tz), ConflictBooking(8, 60, "confirmed", tz)>>}

InitConflict ==
  /\ processedReferences = [i \in Instances |-> {}]
  /\ timers = [i \in Instances |-> {}]
  /\ successRuns = [r \in References |-> 0]
  /\ bookings = <<>>
  /\ processedPayments = <<>>
  /\ inflight = NoRequest
  /\ response = NoResponse
  /\ parsed = FALSE
  /\ last = NoCall
  /\ payment = NoPayment
  /\ \E startTime \in ConflictStartTimes, durationMinutes \in ConflictDurations,
        buffer \in ConflictBuffers, tz \in TimezoneOffsets :
       \E existingBookings \in ConflictBookingLists(tz) :
         avail = [computed |-> FALSE, date |-> LocalDateTime(8, 12 * 60, tz), tz |-> tz,
                  startTime |-> startTime, durationMinutes |-> durationMinutes,
                  bufferMinutes |-> buffer, existingBookings |-> existingBookings,
                  conflict |-> FALSE]

HasBookingConflict ==
  /\ ~avail.computed
  /\ avail' = [avail EXCEPT
                 !.computed = TRUE,
                 !.conflict = hasBookingConflict(avail.date, avail.startTime,
                                                 avail.durationMinutes, avail.existingBookings,
                                                 avail.bufferMinutes, avail.tz)]
  /\ UNCHANGED <<processedReferences, timers, successRuns, inflight, response, parsed,
                 bookings, processedPayments, last, payment>>

SpecConflict == InitConflict /\ [][HasBookingConflict]_vars

\* db.ts getConfirmedBookings: the pending and confirmed bookings that start
\* at or after the start of today (the order of the result plays no part in
\* the availability engine)
getConfirmedBookings(store, now, tz) ==
  SelectSeq(store, LAMBDA booking :
    /\ booking.startTime >= LocalDateTime(LocalDay(now, tz), 0, tz)
    /\ booking.bookingStatus \in {"confirmed", "pending"})

\* data/settings.ts as shipped
settings == [workingHours |-> workingHours, offDays |-> {}, bufferMinutes |-> bufferMinutes]

\* Appointments are booked for the Monday and the Tuesday (days 8 and 9), seen
\* from the Saturday noon before; the host's timezone is fixed at the start
ScheduleDays == {8, 9}

InitSchedule ==
  /\ processedReferences = [i \in Instances |-> {}]
  /\ timers = [i \in Instances |-> {}]
  /\ successRuns = [r \in References |-> 0]
  /\ bookings = <<>>
  /\ processedPayments = <<>>
  /\ inflight = NoRequest
  /\ response = NoResponse
  /\ parsed = FALSE
  /\ last = NoCall
  /\ payment = NoPayment
  /\ \E tz \in TimezoneOffsets :
       avail = [computed |-> FALSE, tz |-> tz, now |-> LocalDateTime(6, 12 * 60, tz)]

\* The slots the time step shows for a service and a day of the calendar
\* (new Date(year, month, day)), computed against the stored bookings
ShownSlots(service, day, store) ==
  getAvailableTimeSlots(service, LocalDateTime(day, 0, avail.tz),
                        getConfirmedBookings(store, avail.now, avail.tz),
                        settings, avail.now, avail.tz)

\* One atomic step: a slot reported available against the stored bookings is
\* booked with createBooking
BookSlot(service, day, i) ==
  /\ i \in DOMAIN ShownSlots(service, day, bookings)
  /\ ShownSlots(service, day, bookings)[i].isAvailable
  /\ CreateBooking(bookingDataAt(service, LocalDateTime(day, 0, avail.tz),
                                 ShownSlots(service, day, bookings)[i].time, <<>>,
                                 avail.tz))

NextSchedule ==
  \/ \E service \in services, day \in ScheduleDays, i \in 1..6 : BookSlot(service, day, i)
  \/ \E id \in BookingIds : CancelBooking(id)

SpecSchedule == InitSchedule /\ [][NextSchedule]_vars

\* The life of stored appointments: a shown slot is booked (pending), the
\* payment confirms it, and it is cancelled, completed or marked no-show
BookShownSlot(service, day, i) ==
  /\ Len(bookings) < MaxSubmissions
  /\ BookSlot(service, day, i)

\* The appointments of this life cycle are all booked for the Monday
ReleaseDays == {8}

NextRelease ==
  \/ \E service \in services, day \in ReleaseDays, i \in 1..6 : BookShownSlot(service, day, i)
  \/ \E id \in BookingIds : UpdateBookingStatus(id, "confirmed", "BEL_1")
  \/ \E id \in BookingIds : CancelBooking(id)
  \/ \E id \in BookingIds : CompleteBooking(id)
  \/ \E id \in BookingIds : MarkNoShow(id)

SpecRelease == InitSchedule /\ [][NextRelease]_vars

\* The booking wizard (BookingContent): the current step and the selections.
\* clientDetails is kept as the outcome validateDetails() has on it; the
\* bookings shown to the engine are the component's empty list.
steps == <<"service", "date", "time", "extras", "details", "review">>
StepIndex(step) == CHOOSE i \in DOMAIN steps : steps[i] = step

NoService == [id |-> ""]
NoTime == <<>>
NoSubmission == [submitted |-> FALSE]

\* The calendar offers the Monday and the Saturday of the coming week
WizardDays == {8, 13}

\* utils.ts getMinBookingDate / getMaxBookingDate: tomorrow at midnight, and
\* three months (taken as 90 days) from now
getMinBookingDate(now, tz) == LocalDateTime(LocalDay(now, tz) + 1, 0, tz)
getMaxBookingDate(now) == now + 90 * MinutesPerDay

isDateDisabled(date, now, tz) ==
  LET found == FindWorkingDay(settings.workingHours, getDay(date, tz))
  IN \/ found = <<>>
     \/ ~found[1].isOpen
     \/ date < getMinBookingDate(now, tz)
     \/ date > getMaxBookingDate(now)
     \/ toISODate(date) \in settings.offDays

availableTimeSlots(w) ==
  IF w.selectedService # NoService /\ w.selectedDate # NoDate
    THEN getAvailableTimeSlots(w.selectedService, w.selectedDate, <<>>, settings, w.now, w.tz)
    ELSE <<>>

canGoNext(w) ==
  CASE w.currentStep = "service" -> w.selectedService # NoService
    [] w.currentStep = "date" -> w.selectedDate # NoDate
    [] w.currentStep = "time" -> w.selectedTime # NoTime
    [] w.currentStep = "extras" -> TRUE
    [] w.currentStep = "details" -> w.detailsValid
    [] w.currentStep = "review" -> w.policyAcknowledged

\* Variant: the submit handler does not look at the acknowledgment
maySubmit_Unacknowledged(w) ==
  w.selectedService # NoService /\ w.selectedDate # NoDate /\ w.selectedTime # NoTime

\* handleSubmit: if (!policyAcknowledged || !selectedService || !selectedDate || !selectedTime) return
maySubmit(w) ==
  /\ w.policyAcknowledged
  /\ w.selectedService # NoService /\ w.selectedDate # NoDate /\ w.selectedTime # NoTime

InitFlow ==
  /\ processedReferences = [i \in Instances |-> {}]
  /\ timers = [i \in Instances |-> {}]
  /\ successRuns = [r \in References |-> 0]
  /\ bookings = <<>>
  /\ processedPayments = <<>>
  /\ inflight = NoRequest
  /\ response = NoResponse
  /\ parsed = FALSE
  /\ last = NoCall
  /\ payment = NoPayment
  /\ \E tz \in TimezoneOffsets :
       avail = [computed |-> FALSE, tz |-> tz, now |-> LocalDateTime(6, 12 * 60, tz),
                currentStep |-> "service", selectedService |-> NoService,
                selectedDate |-> NoDate, selectedTime |-> NoTime,
                detailsValid |-> FALSE, policyAcknowledged |-> FALSE,
                submission |-> NoSubmission]

WizardOnly ==
  UNCHANGED <<processedReferences, timers, successRuns, inflight, response, parsed,
              bookings, processedPayments, last, payment>>

\* useEffect on searchParams: ?service=<id> selects the service and shows the date step
PreselectService(service) ==
  /\ avail' = [avail EXCEPT !.selectedService = service, !.currentStep = "date"]
  /\ WizardOnly

SelectService(service) ==
  /\ avail.currentStep = "service"
  /\ avail' = [avail EXCEPT !.selectedService = service]
  /\ WizardOnly

SelectDate(day) ==
  /\ avail.currentStep = "date"
  /\ ~isDateDisabled(LocalDateTime(day, 0, avail.tz), avail.now, avail.tz)
  /\ avail' = [avail EXCEPT !.selectedDate = LocalDateTime(day, 0, avail.tz)]
  /\ WizardOnly

SelectTime(i) ==
  /\ avail.currentStep = "time"
  /\ i \in DOMAIN availableTimeSlots(avail)
  /\ availableTimeSlots(avail)[i].isAvailable
  /\ avail' = [avail EXCEPT !.selectedTime = availableTimeSlots(avail)[i].time]
  /\ WizardOnly

EditDetails(valid) ==
  /\ avail.currentStep = "details"
  /\ avail' = [avail EXCEPT !.detailsValid = valid]
  /\ WizardOnly

SetPolicyAcknowledged(checked) ==
  /\ avail.currentStep = "review"
  /\ avail' = [avail EXCEPT !.policyAcknowledged = checked]
  /\ WizardOnly

goToStep(step) ==
  /\ StepIndex(step) <= StepIndex(avail.currentStep)
  /\ avail' = [avail EXCEPT !.currentStep = step]
  /\ WizardOnly

\* The Continue button is rendered on every step but 'review'
goNext ==
  /\ avail.currentStep # "review"
  /\ canGoNext(avail)
  /\ StepIndex(avail.currentStep) + 1 <= Len(steps)
  /\ avail' = [avail EXCEPT !.currentStep = steps[StepIndex(avail.currentStep) + 1]]
  /\ WizardOnly

goBack ==
  /\ StepIndex(avail.currentStep) - 1 >= 1
  /\ avail' = [avail EXCEPT !.currentStep = steps[StepIndex(avail.currentStep) - 1]]
  /\ WizardOnly

\* The Pay Deposit button is rendered on 'review'; the record built is kept
\* together with the selections it was built from
handleSubmit ==
  /\ avail.currentStep = "review"
  /\ maySubmit(avail)
  /\ avail' = [avail EXCEPT !.submission =
                 [submitted |-> TRUE,
                  policyAcknowledged |-> avail.policyAcknowledged,
                  selectedService |-> avail.selectedService,
                  selectedDate |-> avail.selectedDate,
                  selectedTime |-> avail.selectedTime,
                  bookingData |-> bookingDataAt(avail.selectedService, avail.selectedDate,
                                                avail.selectedTime, <<>>, avail.tz)]]
  /\ WizardOnly

NextFlow ==
  \/ \E service \in services : PreselectService(service)
  \/ \E service \in services : SelectService(service)
  \/ \E day \in WizardDays : SelectDate(day)
  \/ \E i \in 1..6 : SelectTime(i)
  \/ \E valid \in BOOLEAN : EditDetails(valid)
  \/ \E checked \in BOOLEAN : SetPolicyAcknowledged(checked)
  \/ \E step \in {steps[i] : i \in DOMAIN steps} : goToStep(step)
  \/ goNext
  \/ goBack
  \/ handleSubmit

SpecFlow == InitFlow /\ [][NextFlow]_vars

\* Two clients use the booking page at the same time. Each one loads the
\* bookings and sees the slots of a service and a day, and later creates a
\* booking for a slot it saw available; createBooking is a plain addDoc, so
\* the steps of the two clients interleave freely.
Clients == {"client1", "client2"}

IdleClient == [pc |-> "idle"]

InitConcurrent ==
  /\ processedReferences = [i \in Instances |-> {}]
  /\ timers = [i \in Instances |-> {}]
  /\ successRuns = [r \in References |-> 0]
  /\ bookings = <<>>
  /\ processedPayments = <<>>
  /\ inflight = NoRequest
  /\ response = NoResponse
  /\ parsed = FALSE
  /\ last = NoCall
  /\ payment = NoPayment
  /\ \E tz \in TimezoneOffsets :
       avail = [computed |-> FALSE, tz |-> tz, now |-> LocalDateTime(6, 12 * 60, tz),
                clients |-> [c \in Clients |-> IdleClient]]

QueryAvailability(c, service, day) ==
  /\ avail.clients[c].pc = "idle"
  /\ avail' = [avail EXCEPT !.clients[c] =
                 [pc |-> "queried", service |-> service, day |-> day,
                  slots |-> ShownSlots(service, day, bookings)]]
  /\ UNCHANGED <<processedReferences, timers, successRuns, inflight, response, parsed,
                 bookings, processedPayments, last, payment>>

CreateQueriedBooking(c, i) ==
  /\ avail.clients[c].pc = "queried"
  /\ i \in DOMAIN avail.clients[c].slots
  /\ avail.clients[c].slots[i].isAvailable
  /\ Len(bookings) < MaxBookings
  /\ bookings' = createBooking(bookings,
                                bookingDataAt(avail.clients[c].service,
                                              LocalDateTime(avail.clients[c].day, 0, avail.tz),
                                              avail.clients[c].slots[i].time, <<>>, avail.tz))
  /\ avail' = [avail EXCEPT !.clients[c] = [pc |-> "created"]]
  /\ UNCHANGED <<processedReferences, timers, successRuns, inflight, response, parsed,
                 processedPayments, last, payment>>

NextConcurrent ==
  \/ \E c \in Clients, service \in services, day \in ScheduleDays :
       QueryAvailability(c, service, day)
  \/ \E c \in Clients, i \in 1..6 : CreateQueriedBooking(c, i)

SpecConcurrent == InitConcurrent /\ [][NextConcurrent]_vars

\* getNextAvailableDate applied to one query that starts on the Friday (day 5),
\* at local midnight or in the evening; the off days are none, the Saturday,
\* or every day of the scanned range but the last, or all of them
ScanOffDays == {{}, {6}, 6..(5 + maxDays - 1), 6..(5 + maxDays)}

InitNextDate ==
  /\ processedReferences = [i \in Instances |-> {}]
  /\ timers = [i \in Instances |-> {}]
  /\ successRuns = [r \in References |-> 0]
  /\ bookings = <<>>
  /\ processedPayments = <<>>
  /\ inflight = NoRequest
  /\ response = NoResponse
  /\ parsed = FALSE
  /\ last = NoCall
  /\ payment = NoPayment
  /\ \E service \in services, minuteOfDay \in {0, 20 * 60}, tz \in TimezoneOffsets,
        hours \in {workingHours, ShortMondayHours}, offDays \in ScanOffDays :
       \E existingBookings \in BookingLists(tz) :
         avail = [computed |-> FALSE, service |-> service,
                  startFrom |-> LocalDateTime(5, minuteOfDay, tz), tz |-> tz,
                  now |-> LocalDateTime(5, minuteOfDay, tz),
                  settings |-> [workingHours |-> hours, offDays |-> offDays,
                                bufferMinutes |-> bufferMinutes],
                  existingBookings |-> existingBookings, next |-> NoDate]

GetNextAvailableDate ==
  /\ ~avail.computed
  /\ avail' = [avail EXCEPT
                 !.computed = TRUE,
                 !.next = getNextAvailableDate(avail.service, avail.existingBookings,
                                               avail.startFrom, avail.settings,
                                               avail.now, avail.tz)]
  /\ UNCHANGED <<processedReferences, timers, successRuns, inflight, response, parsed,
                 bookings, processedPayments, last, payment>>

SpecNextDate == InitNextDate /\ [][GetNextAvailableDate]_vars

\* The two time conversions applied one after the other to a zero-padded
\* 'HH:MM' string of a single day
TimeStrings ==
  {<<DigitChars[(h \div 10) + 1], DigitChars[(h % 10) + 1], ":",
     DigitChars[(m \div 10) + 1], DigitChars[(m % 10) + 1]>> : h \in 0..23, m \in 0..59}

InitTime ==
  /\ processedReferences = [i \in Instances |-> {}]
  /\ timers = [i \in Instances |-> {}]
  /\ successRuns = [r \in References |-> 0]
  /\ bookings = <<>>
  /\ processedPayments = <<>>
  /\ inflight = NoRequest
  /\ response = NoResponse
  /\ parsed = FALSE
  /\ last = NoCall
  /\ payment = NoPayment
  /\ \E t \in TimeStrings : avail = [computed |-> FALSE, time |-> t, minutes |-> 0, text |-> <<>>]

TimeRoundTrip ==
  /\ ~avail.computed
  /\ avail' = [avail EXCEPT
                 !.computed = TRUE,
                 !.minutes = timeToMinutes(parseTime(avail.time)),
                 !.text = minutesToTime(timeToMinutes(parseTime(avail.time)))]
  /\ UNCHANGED <<processedReferences, timers, successRuns, inflight, response, parsed,
                 bookings, processedPayments, last, payment>>

SpecTime == InitTime /\ [][TimeRoundTrip]_vars

\* The create-payment function called with any method and body, answered by
\* the processor in any of its ways
NextPayment ==
  \/ \E m \in PaymentMethods, body \in PaymentBodies : CreatePayment(m, body)
  \/ \E answer \in ProcessorAnswers : ProcessorAnswer(answer)
  \/ PaymentReturn

SpecPayment == Init /\ [][NextPayment]_vars

----------------------------------------------------------------------------
(* Properties of the webhook handler, stated on the step that runs it *)

HandleStep == inflight # NoRequest /\ response = NoResponse /\ response' # NoResponse

\* the request carries the hex HMAC-SHA512 of its raw body under the shared secret
Genuine(req) ==
  /\ req.httpMethod = "POST"
  /\ req.signature = [kind |-> "hex", key |-> PAYSTACK_SECRET_KEY, text |-> Payload(req.body)]

ChargeSuccess(req) ==
  /\ Genuine(req)
  /\ req.body.kind = "json" /\ req.body.hasData
  /\ req.body.event = "charge.success"

\* C1: a correctly signed charge.success/success event for a reference not yet
\* processed marks the reference processed and confirms the booking named by
\* metadata.bookingId (paymentReference set, paymentStatus paid), answering 200.
C1_SuccessConfirmsBooking ==
  [][(/\ HandleStep
      /\ ChargeSuccess(inflight)
      /\ inflight.body.status = "success"
      /\ inflight.body.hasMetadata /\ inflight.body.hasCustomer
      /\ inflight.body.bookingId \in DOMAIN bookings
      /\ inflight.body.reference \notin processedReferences[inflight.instance])
     => (/\ response'.statusCode = 200
         /\ inflight.body.reference \in processedReferences'[inflight.instance]
         /\ bookings' = updateBookingStatus(bookings, inflight.body.bookingId,
                                            "confirmed", inflight.body.reference))]_vars

\* C2: over all deliveries to all instances, the mutating success branch runs
\* at most once per payment reference.
C2_SuccessBranchAtMostOnce == \A r \in References : successRuns[r] <= 1

\* C5: a correctly signed charge.success event whose reference the instance
\* holds as processed is answered 200 'Already processed' and changes neither
\* the processed references nor any booking.
C5_AlreadyProcessedIsNoOp ==
  [][(/\ HandleStep
      /\ ChargeSuccess(inflight)
      /\ inflight.body.reference \in processedReferences[inflight.instance])
     => (/\ response' = Respond(200, "Already processed")
         /\ UNCHANGED <<processedReferences, timers, successRuns,
                        bookings, processedPayments>>)]_vars

C5_Witness ==
  /\ response = Respond(200, "Already processed")
  /\ ChargeSuccess(inflight)
  /\ inflight.body.status = "success"
  /\ inflight.body.reference \in processedReferences[inflight.instance]
  /\ Len(bookings) > 0

\* C6: a non-POST request is answered 405; a POST without a signature, or with
\* one that is not the digest of the raw body under the secret, is answered 401;
\* in these cases JSON.parse is never reached and nothing changes.
C6_RejectedRequestsChangeNothing ==
  [][(HandleStep /\ ~Genuine(inflight))
     => (/\ response'.statusCode = IF inflight.httpMethod # "POST" THEN 405 ELSE 401
         /\ ~parsed'
         /\ UNCHANGED <<processedReferences, timers, successRuns,
                        bookings, processedPayments>>)]_vars

C6_Witness ==
  /\ response = Respond(401, "Invalid signature")
  /\ inflight.signature.kind = "hex"
  /\ inflight.body.kind = "json"
  /\ inflight.body.event = "charge.success" /\ inflight.body.status = "success"
  /\ inflight.body.reference \notin processedReferences[inflight.instance]
  /\ Len(bookings) > 0

\* C7: once the handler has processed a reference it stays processed: the
\* instance never forgets it, and every later correctly signed charge.success
\* delivery for it is answered 'Already processed' without a second run.
C7_ProcessedStaysProcessed ==
  [][/\ \A i \in Instances, r \in References :
          r \in processedReferences[i] => r \in processedReferences'[i]
     /\ (/\ HandleStep
         /\ ChargeSuccess(inflight)
         /\ successRuns[inflight.body.reference] >= 1)
        => (/\ response' = Respond(200, "Already processed")
            /\ successRuns' = successRuns)]_vars

\* C8: whenever a correctly signed request is answered 500, the processed
\* references and the bookings are what they were before the request.
C8_ErrorLeavesStateUntouched ==
  [][(HandleStep /\ Genuine(inflight) /\ response'.statusCode = 500)
     => UNCHANGED <<processedReferences, timers, successRuns, bookings>>]_vars

\* C9 as stated: every correctly signed, parsable event that is not a
\* charge.success with inner status success is answered 200, marks nothing and
\* changes no booking.
NotSuccessfulCharge(req) ==
  /\ Genuine(req)
  /\ req.body.kind = "json"
  /\ ~(req.body.event = "charge.success" /\ req.body.status = "success")

----------------------------------------------------------------------------
(* Properties of the idempotency helpers *)

\* C3: after markPaymentProcessed(ref, b) has completed successfully, the first
\* call for ref included, isPaymentProcessed(ref) returns true.
C3_MarkedIsProcessed ==
  (last.op = "markPaymentProcessed" /\ last.ok)
    => isPaymentProcessed(processedPayments, last.reference)

\* C4: markPaymentProcessed is first-writer-wins: once a record for ref exists,
\* a further markPaymentProcessed(ref, b2) leaves exactly that one record, its
\* bookingId unchanged.
C4_FirstWriterWins ==
  [][\A r \in References :
       PaymentRecords(processedPayments, r) # <<>>
         => PaymentRecords(processedPayments', r) = PaymentRecords(processedPayments, r)]_vars

----------------------------------------------------------------------------
(* Properties of the availability engine *)

\* The business is closed on the calendar day of `date`: its weekday has no
\* working-hours entry or is not open, or the day is one of settings.offDays.
BusinessClosed(config, date, tz) ==
  LET found == SelectSeq(config.workingHours,
                         LAMBDA wh : wh.dayOfWeek = LocalDay(date, tz) % 7)
  IN \/ found = <<>>
     \/ ~found[1].isOpen
     \/ LocalDay(date, tz) \in config.offDays

\* C10: for every service, booking list and date on which the business is
\* closed, getAvailableTimeSlots returns the empty sequence.
C10_ClosedDateHasNoSlots ==
  (avail.computed /\ BusinessClosed(avail.settings, avail.date, avail.tz))
    => avail.slots = <<>>

\* The slots follow the service's allowed start times: same length, same order
FollowsAllowedStartTimes(slots, service) ==
  /\ Len(slots) = Len(service.allowedStartTimes)
  /\ \A i \in DOMAIN slots : slots[i].time = service.allowedStartTimes[i]

\* C11 as stated: for every service, date and booking list the returned
\* sequence has one slot per allowed start time, in the same order.
C11_OneSlotPerStartTimeAlways ==
  avail.computed => FollowsAllowedStartTimes(avail.slots, avail.service)

\* C11 amended: the returned sequence is either empty or has one slot per
\* allowed start time in the same order; it has that shape whenever the weekday
\* of the date is open and neither its local nor its UTC calendar day is an
\* off day, and it is empty whenever the weekday is closed.
C11_SlotsFollowAllowedStartTimes ==
  avail.computed =>
    LET found == SelectSeq(avail.settings.workingHours,
                           LAMBDA wh : wh.dayOfWeek = LocalDay(avail.date, avail.tz) % 7)
        weekdayOpen == found # <<>> /\ found[1].isOpen
        offDay == \/ LocalDay(avail.date, avail.tz) \in avail.settings.offDays
                  \/ toISODate(avail.date) \in avail.settings.offDays
    IN /\ avail.slots = <<>> \/ FollowsAllowedStartTimes(avail.slots, avail.service)
       /\ (weekdayOpen /\ ~offDay) => FollowsAllowedStartTimes(avail.slots, avail.service)
       /\ ~weekdayOpen => avail.slots = <<>>

C11_Witness ==
  /\ avail.computed
  /\ Len(avail.slots) = 6
  /\ avail.slots[1].isAvailable
  /\ avail.slots[5].isAvailable
  /\ ~avail.slots[6].isAvailable

\* The working-hours entry of the weekday of the queried date
WorkingDayOf(a) ==
  SelectSeq(a.settings.workingHours, LAMBDA wh : wh.dayOfWeek = LocalDay(a.date, a.tz) % 7)[1]

\* C12: an available slot ends at or before the closing time of the weekday
\* (ending exactly at closing is allowed), and every allowed start time at or
\* after opening whose service would end after closing is returned unavailable
\* with the reason 'Service would end after closing', and only such a slot
\* carries that reason.
C12_ClosingTimeIsHardWall ==
  avail.computed =>
    \A i \in DOMAIN avail.slots :
      LET slot == avail.slots[i]
          endMinutes == timeToMinutes(slot.time) + avail.service.durationMinutes
          openMinutes == timeToMinutes(WorkingDayOf(avail).openTime)
          closeMinutes == timeToMinutes(WorkingDayOf(avail).closeTime)
      IN /\ slot.isAvailable => endMinutes <= closeMinutes
         /\ (timeToMinutes(slot.time) >= openMinutes /\ endMinutes > closeMinutes)
              => (~slot.isAvailable /\ slot.reason = "Service would end after closing")
         /\ slot.reason = "Service would end after closing" => endMinutes > closeMinutes
         /\ endMinutes = closeMinutes => slot.reason # "Service would end after closing"

C12_Witness ==
  /\ avail.computed
  /\ \E i \in DOMAIN avail.slots :
        /\ avail.slots[i].reason = "Service would end after closing"
        /\ timeToMinutes(avail.slots[i].time) + avail.service.durationMinutes
             = timeToMinutes(WorkingDayOf(avail).closeTime) + 30
  /\ \E i \in DOMAIN avail.slots : avail.slots[i].isAvailable

\* C14: each slot's reason is that of the first condition that holds, in the
\* order before opening, would end after closing, time has passed, already
\* booked; the slot is available, with no reason, iff none of the four holds.
C14_FirstReasonWins ==
  avail.computed =>
    \A i \in DOMAIN avail.slots :
      LET slot == avail.slots[i]
          t == avail.service.allowedStartTimes[i]
          beforeOpening == timeToMinutes(t) < timeToMinutes(WorkingDayOf(avail).openTime)
          afterClosing == timeToMinutes(t) + avail.service.durationMinutes
                            > timeToMinutes(WorkingDayOf(avail).closeTime)
          passed == hasTimePassed(avail.date, t, avail.now, avail.tz)
          booked == hasBookingConflict(avail.date, t, avail.service.durationMinutes,
                                       avail.existingBookings,
                                       avail.settings.bufferMinutes, avail.tz)
      IN /\ slot.isAvailable <=> ~(beforeOpening \/ afterClosing \/ passed \/ booked)
         /\ slot.isAvailable => slot.reason = ""
         /\ beforeOpening => slot.reason = "Before opening time"
         /\ (~beforeOpening /\ afterClosing)
              => slot.reason = "Service would end after closing"
         /\ (~beforeOpening /\ ~afterClosing /\ passed) => slot.reason = "Time has passed"
         /\ (~beforeOpening /\ ~afterClosing /\ ~passed /\ booked)
              => slot.reason = "Already booked"

C14_Witness ==
  /\ avail.computed
  /\ \E i \in DOMAIN avail.slots :
        /\ avail.slots[i].reason = "Time has passed"
        /\ hasBookingConflict(avail.date, avail.slots[i].time, avail.service.durationMinutes,
                              avail.existingBookings, avail.settings.bufferMinutes, avail.tz)
  /\ \E i \in DOMAIN avail.slots : avail.slots[i].reason = "Already booked"

\* The instant at which the i-th slot of the queried date starts
SlotStart(a, i) ==
  LocalDateTime(LocalDay(a.date, a.tz), timeToMinutes(a.slots[i].time), a.tz)

PassesOpeningAndClosing(a, i) ==
  /\ timeToMinutes(a.slots[i].time) >= timeToMinutes(WorkingDayOf(a).openTime)
  /\ timeToMinutes(a.slots[i].time) + a.service.durationMinutes
       <= timeToMinutes(WorkingDayOf(a).closeTime)

DateIsToday(a) == LocalDay(a.date, a.tz) = LocalDay(a.now, a.tz)

\* C27: on today's date a slot that passes the opening and closing checks and
\* starts less than 2 hours after the current time is unavailable with the
\* reason 'Time has passed'; on any other calendar day no slot is made
\* unavailable by the cutoff.
C27_CutoffOnlyToday ==
  avail.computed =>
    \A i \in DOMAIN avail.slots :
      /\ (DateIsToday(avail) /\ PassesOpeningAndClosing(avail, i)
            /\ SlotStart(avail, i) < avail.now + 120)
           => (~avail.slots[i].isAvailable /\ avail.slots[i].reason = "Time has passed")
      /\ avail.slots[i].reason = "Time has passed"
           => (DateIsToday(avail) /\ SlotStart(avail, i) < avail.now + 120)

\* Today, with a slot cut off, the slot exactly 2 hours ahead still available
C27_Witness ==
  /\ avail.computed
  /\ DateIsToday(avail)
  /\ \E i \in DOMAIN avail.slots : avail.slots[i].reason = "Time has passed"
  /\ \E i \in DOMAIN avail.slots :
       avail.slots[i].isAvailable /\ SlotStart(avail, i) = avail.now + 120

\* The i-th slot, with its buffer, overlaps a pending or confirmed booking
\* whose local start day is the local calendar day of the queried date
ConflictsOnLocalDay(a, i) ==
  \E k \in DOMAIN a.existingBookings :
    LET booking == a.existingBookings[k]
        startMinutes == timeToMinutes(a.slots[i].time)
        endMinutes == startMinutes + a.service.durationMinutes + a.settings.bufferMinutes
        bookingStartMinutes == LocalMinuteOfDay(booking.startTime, a.tz)
        bookingEndMinutes == LocalMinuteOfDay(booking.endTime, a.tz) + a.settings.bufferMinutes
    IN /\ booking.bookingStatus \in {"pending", "confirmed"}
       /\ LocalDay(booking.startTime, a.tz) = LocalDay(a.date, a.tz)
       /\ \/ (startMinutes >= bookingStartMinutes /\ startMinutes < bookingEndMinutes)
          \/ (endMinutes > bookingStartMinutes /\ endMinutes <= bookingEndMinutes)
          \/ (startMinutes <= bookingStartMinutes /\ endMinutes >= bookingEndMinutes)

OpenWeekday(a) ==
  LET found == FindWorkingDay(a.settings.workingHours, getDay(a.date, a.tz))
  IN found # <<>> /\ found[1].isOpen

\* C29: for every timezone offset of the host, the off-day lookup and the
\* selection of same-day bookings use the local calendar day of the date: on
\* an open weekday no slots are returned exactly when that local day is an off
\* day, and a slot that reaches the conflict check is 'Already booked' exactly
\* when it conflicts with an active booking whose local start day is that day.
C29_OneLocalCalendarDay ==
  (avail.computed /\ OpenWeekday(avail)) =>
    /\ avail.slots = <<>> <=> LocalDay(avail.date, avail.tz) \in avail.settings.offDays
    /\ \A i \in DOMAIN avail.slots :
         avail.slots[i].reason \in {"", "Already booked"} =>
           (avail.slots[i].reason = "Already booked" <=> ConflictsOnLocalDay(avail, i))

----------------------------------------------------------------------------
(* Properties of hasBookingConflict *)

\* The pending or confirmed bookings on the calendar day of the queried date
ActiveSameDay(a) ==
  {k \in DOMAIN a.existingBookings :
     /\ a.existingBookings[k].bookingStatus \in {"pending", "confirmed"}
     /\ LocalDay(a.existingBookings[k].startTime, a.tz) = LocalDay(a.date, a.tz)}

CandidateStart(a) == timeToMinutes(a.startTime)
CandidateEnd(a) == timeToMinutes(a.startTime) + a.durationMinutes + a.bufferMinutes
ExistingStart(a, k) == LocalMinuteOfDay(a.existingBookings[k].startTime, a.tz)
ExistingEnd(a, k) == LocalMinuteOfDay(a.existingBookings[k].endTime, a.tz) + a.bufferMinutes

\* candidateStart < existingEnd && candidateEnd > existingStart
HalfOpenOverlap(a, k) ==
  CandidateStart(a) < ExistingEnd(a, k) /\ CandidateEnd(a) > ExistingStart(a, k)

----------------------------------------------------------------------------
(* Properties of the booking store *)

\* pending -> confirmed, any -> cancelled, confirmed -> completed, confirmed -> no-show
AllowedTransition(from, to) ==
  \/ from = "pending" /\ to = "confirmed"
  \/ to = "cancelled"
  \/ from = "confirmed" /\ to \in {"completed", "no-show"}

\* C15: after any sequence of store operations every change of a booking's
\* bookingStatus is pending -> confirmed, any -> cancelled, confirmed ->
\* completed or confirmed -> no-show; none moves a booking backward.
C15_OnlyForwardTransitions ==
  [][\A id \in DOMAIN bookings :
       bookings'[id].bookingStatus # bookings[id].bookingStatus
         => AllowedTransition(bookings[id].bookingStatus, bookings'[id].bookingStatus)]_vars

\* C16: in every reachable state a booking with bookingStatus 'confirmed' has
\* paymentStatus 'paid' and a paymentReference recorded as processed.
C16_ConfirmedMeansPaid ==
  \A id \in DOMAIN bookings :
    bookings[id].bookingStatus = "confirmed"
      => /\ bookings[id].paymentStatus = "paid"
         /\ bookings[id].paymentReference # ""
         /\ PaymentRecords(processedPayments, bookings[id].paymentReference) # <<>>

\* C17: a booking's paymentReference, once set, is never overwritten, and no
\* two bookings hold the same non-empty paymentReference.
C17_ReferenceSetOnceAndUnique ==
  [][/\ \A id \in DOMAIN bookings :
          bookings[id].paymentReference # ""
            => bookings'[id].paymentReference = bookings[id].paymentReference
     /\ \A i, j \in DOMAIN bookings' :
          (i # j /\ bookings'[i].paymentReference # "")
            => bookings'[i].paymentReference # bookings'[j].paymentReference]_vars

\* C18: every stored booking satisfies balanceDue = subtotal + extrasTotal -
\* totalPaid, as built by the wizard and after any later store operation.
C18_BalanceDueIdentity ==
  \A id \in DOMAIN bookings :
    bookings[id].balanceDue
      = bookings[id].subtotal + bookings[id].extrasTotal - bookings[id].totalPaid

\* A booking with both add-ons that the store operations have since updated
C18_Witness ==
  \E id \in DOMAIN bookings :
    /\ bookings[id].extrasTotal = 125
    /\ bookings[id].subtotal = 280
    /\ bookings[id].balanceDue = 305
    /\ bookings[id].bookingStatus = "completed"
    /\ bookings[id].paymentStatus = "paid"

----------------------------------------------------------------------------
(* Properties of the create-payment function *)

\* The handler has issued its POST or has returned, for a POST request
PaymentHandled == payment.pc \in {"awaiting", "done"} /\ payment.httpMethod = "POST"

\* One of email, amount, bookingId, serviceId is not in the request body
\* (a body that is no JSON object carries none of them)
SomeFieldMissing(body) ==
  \/ body.kind # "object"
  \/ ~body.email.defined
  \/ ~body.amount.defined
  \/ ~body.bookingId.defined
  \/ ~body.serviceId.defined

\* C19 as stated: a POST with a required field missing is answered 400 without
\* an outbound call; every other POST issues exactly one call to the processor.
C19_MissingFieldOrOneCall ==
  PaymentHandled =>
    IF SomeFieldMissing(payment.body)
      THEN payment.calls = 0 /\ payment.response.statusCode = 400
      ELSE payment.calls = 1

\* C19 amended: a POST whose body cannot be read as JSON, or in which one of
\* the four fields is missing or falsy (empty string, amount 0), leads to no
\* outbound call, and when the body was read it is answered 400; every other
\* POST issues exactly one call to the processor, whatever the processor
\* answers, and the answer alone decides the response.
C19_ValidatedBeforeSingleCall ==
  PaymentHandled =>
    IF CreatePaymentParseThrows(payment.body)
      THEN payment.pc = "done" /\ payment.calls = 0
    ELSE IF \E f \in {payment.body.email, payment.body.amount,
                       payment.body.bookingId, payment.body.serviceId} : ~f.truthy
      THEN payment.pc = "done" /\ payment.calls = 0 /\ payment.response.statusCode = 400
    ELSE /\ payment.calls = 1
         /\ payment.pc = "done" =>
              payment.response.statusCode =
                CASE payment.answer = "accepted" -> 200
                  [] payment.answer = "rejected" -> 400
                  [] OTHER -> 500

\* The processor never answered: one call was made and none followed
C19_Witness ==
  /\ payment.pc = "done"
  /\ payment.httpMethod = "POST"
  /\ payment.answer = "networkError"
  /\ payment.calls = 1
  /\ payment.response.statusCode = 500

\* C20: missing or malformed caller input, a body that is not valid JSON
\* included, is answered with a 4xx response and never with a 5xx response.
C20_BadInputIs4xx ==
  (/\ payment.pc = "done"
   /\ payment.httpMethod = "POST"
   /\ \/ payment.body.kind \in {"garbage", "jsonNull", "jsonNumber"}
      \/ SomeFieldMissing(payment.body))
    => payment.response.statusCode \in 400..499

----------------------------------------------------------------------------
(* Properties of the time conversions *)

\* C21: minutesToTime(timeToMinutes(t)) = t for every zero-padded 'HH:MM'
\* string t with HH in 00..23 and MM in 00..59.
C21_TimeRoundTrip == avail.computed => avail.text = avail.time

\* '09:05': both parts need their leading zero back
C21_Witness ==
  /\ avail.computed
  /\ avail.time = <<"0", "9", ":", "0", "5">>
  /\ avail.minutes = 545
  /\ avail.text = avail.time

----------------------------------------------------------------------------
(* Properties of getNextAvailableDate *)

\* The dates of the scan that have an available slot: startFrom + k days, k in 1..90
ScanHits(a) ==
  {k \in 1..maxDays :
     hasAvailableSlots(a.service, a.startFrom + k * MinutesPerDay, a.existingBookings,
                       a.settings, a.now, a.tz)}

\* C22: getNextAvailableDate returns the earliest of the 90 dates after
\* startFrom that has an available slot, null iff there is none, and never
\* startFrom itself or a date on which the business is closed.
C22_EarliestOpenDate ==
  avail.computed =>
    /\ avail.next = NoDate <=> ScanHits(avail) = {}
    /\ avail.next # NoDate =>
         /\ \E k \in ScanHits(avail) :
              /\ avail.next = avail.startFrom + k * MinutesPerDay
              /\ \A j \in ScanHits(avail) : k <= j
         /\ ~BusinessClosed(avail.settings, avail.next, avail.tz)

----------------------------------------------------------------------------
(* Payment fields of a stored booking *)

SamePaymentFields(before, after) ==
  /\ after.paymentStatus = before.paymentStatus
  /\ after.paymentReference = before.paymentReference

\* C28: after any sequence of store operations a booking is 'paid' iff its
\* paymentReference is non-empty, and a status update made without a payment
\* reference (also cancel, complete, no-show) leaves both fields unchanged.
C28_PaidIffReference ==
  \A k \in DOMAIN bookings :
    /\ bookings[k].paymentStatus = "paid" <=> bookings[k].paymentReference # ""
    /\ \A status \in BookingStatuses :
         SamePaymentFields(bookings[k], updateBookingStatus(bookings, k, status, "")[k])
    /\ SamePaymentFields(bookings[k], cancelBooking(bookings, k)[k])
    /\ SamePaymentFields(bookings[k], completeBooking(bookings, k)[k])
    /\ SamePaymentFields(bookings[k], markNoShow(bookings, k)[k])

\* A booking paid under BEL_1 and cancelled afterwards, next to an unpaid one
C28_Witness ==
  /\ Len(bookings) = 2
  /\ bookings[1].paymentStatus = "paid" /\ bookings[1].paymentReference = "BEL_1"
  /\ bookings[1].bookingStatus = "cancelled"
  /\ bookings[2].paymentStatus = "pending" /\ bookings[2].paymentReference = ""
  /\ bookings[2].bookingStatus = "no-show"

----------------------------------------------------------------------------
(* Properties of the schedule the availability engine admits *)

ActiveBooking(booking) == booking.bookingStatus \in {"pending", "confirmed"}

\* Two stored bookings are both active and on the same calendar date
ActiveOnSameDate(i, j) ==
  /\ i # j
  /\ ActiveBooking(bookings[i]) /\ ActiveBooking(bookings[j])
  /\ LocalDay(bookings[i].startTime, avail.tz) = LocalDay(bookings[j].startTime, avail.tz)

\* C23: when every booking is created, in one atomic step, for a slot that
\* getAvailableTimeSlots reported available against the stored bookings, any
\* two pending/confirmed bookings on the same date do not overlap and the
\* later one starts at least bufferMinutes after the earlier one ends.
C23_BufferBetweenBookings ==
  \A i, j \in DOMAIN bookings :
    (ActiveOnSameDate(i, j) /\ bookings[i].startTime <= bookings[j].startTime) =>
      bookings[j].startTime >= bookings[i].endTime + bufferMinutes

\* C24: for any interleaving in which two clients each query availability and
\* then each create a booking, the store never holds two pending/confirmed
\* bookings with overlapping times on the same date.
C24_NoDoubleBookingUnderConcurrency ==
  \A i, j \in DOMAIN bookings :
    ActiveOnSameDate(i, j) =>
      ~(/\ bookings[i].startTime < bookings[j].endTime
        /\ bookings[j].startTime < bookings[i].endTime)

----------------------------------------------------------------------------
(* Which stored bookings block a slot *)

\* getAvailableTimeSlots for a calendar day against a list of bookings
SlotsAgainst(service, day, existingBookings) ==
  getAvailableTimeSlots(service, LocalDateTime(day, 0, avail.tz), existingBookings,
                        settings, avail.now, avail.tz)

\* The list of bookings without its k-th entry
WithoutBooking(store, k) == SubSeq(store, 1, k - 1) \o SubSeq(store, k + 1, Len(store))

OtherActiveStatus(status) == IF status = "pending" THEN "confirmed" ELSE "pending"

\* C25: only pending and confirmed bookings block slots, a pending booking
\* blocks exactly as a confirmed one, and once cancelBooking, completeBooking
\* or markNoShow is applied to a booking the slots are those reported
\* without that booking: every slot whose only conflict it was is available.
C25_OnlyActiveBookingsBlock ==
  \A k \in DOMAIN bookings, service \in services, day \in ScheduleDays :
    /\ ActiveBooking(bookings[k]) =>
         SlotsAgainst(service, day, bookings) =
           SlotsAgainst(service, day,
                        [bookings EXCEPT ![k].bookingStatus = OtherActiveStatus(@)])
    /\ ~ActiveBooking(bookings[k]) =>
         SlotsAgainst(service, day, bookings) =
           SlotsAgainst(service, day, WithoutBooking(bookings, k))
    /\ \A released \in {cancelBooking(bookings, k), completeBooking(bookings, k),
                         markNoShow(bookings, k)} :
         SlotsAgainst(service, day, released) =
           SlotsAgainst(service, day, WithoutBooking(bookings, k))

\* A cancelled booking whose slot was 'Already booked' while it was pending
\* and is available now
C25_Witness ==
  \E k \in DOMAIN bookings, service \in services, day \in ScheduleDays :
    \E i \in DOMAIN SlotsAgainst(service, day, bookings) :
      /\ bookings[k].bookingStatus = "cancelled"
      /\ SlotsAgainst(service, day, bookings)[i].isAvailable
      /\ SlotsAgainst(service, day,
                      [bookings EXCEPT ![k].bookingStatus = "pending"])[i].reason
           = "Already booked"

----------------------------------------------------------------------------
(* Properties of the booking wizard *)

\* C26: the time handleSubmit submits is one of the selected service's
\* allowedStartTimes and a slot getAvailableTimeSlots reports available for
\* the selected service and date, whatever navigation and selections came before.
C26_SubmittedTimeIsAvailableSlot ==
  avail.submission.submitted =>
    LET sub == avail.submission
        slots == getAvailableTimeSlots(sub.selectedService, sub.selectedDate, <<>>,
                                       settings, avail.now, avail.tz)
    IN /\ \E i \in DOMAIN sub.selectedService.allowedStartTimes :
            sub.selectedService.allowedStartTimes[i] = sub.selectedTime
       /\ \E i \in DOMAIN slots :
            slots[i].time = sub.selectedTime /\ slots[i].isAvailable

\* A submission made with the acknowledgment given and all selections present
AcknowledgedCompleteSubmission ==
  avail.submission.submitted =>
    /\ avail.submission.policyAcknowledged
    /\ avail.submission.selectedService # NoService
    /\ avail.submission.selectedDate # NoDate
    /\ avail.submission.selectedTime # NoTime
    /\ avail.submission.bookingData.policyAcknowledged = TRUE

\* The step changes to 'review' only from 'details' with details that validate
ReviewEnteredFromValidDetails ==
  (avail'.currentStep = "review" /\ avail.currentStep # "review") =>
    (avail.currentStep = "details" /\ avail.detailsValid)

\* C30: handleSubmit builds the booking record only when policyAcknowledged
\* is true and a service, a date and a time are selected; the 'review' step
\* is entered only from 'details' with validated details; the submitted
\* record has policyAcknowledged = true.
C30_SubmitOnlyAcknowledgedAndComplete ==
  /\ []AcknowledgedCompleteSubmission
  /\ [](avail.currentStep = "review" => avail.detailsValid)
  /\ [][ReviewEnteredFromValidDetails]_vars

C30_Witness ==
  /\ avail.currentStep = "review"
  /\ avail.submission.submitted
  /\ avail.submission.policyAcknowledged
  /\ avail.submission.selectedService.id = "wash-style"
  /\ avail.submission.selectedTime = <<14, 0>>
  /\ avail.submission.bookingData.policyAcknowledged = TRUE

====
